---- MODULE Spec2Model ----
(***************************************************************************)
(* Model of the in-memory captcha store of tools/store/store.go:           *)
(* memoryStore = RWMutex + digitsById (map) + idByTime (list ordered by    *)
(* insertion) + numStored, with Set, Get and the background collect().     *)
(*                                                                         *)
(* Callers are threads that run Set and Get; every statement group that    *)
(* the mutex makes atomic is one action.  `go s.collect()` starts a        *)
(* goroutine, taken from a finite pool of goroutine slots.  Time is a      *)
(* discrete monotonic clock; time.Now() reads it.                          *)
(***************************************************************************)
EXTENDS Integers, Sequences, FiniteSets

\* ------------------------------------------------------------------ bounds
MaxTime == 2          \* the clock runs from 0 to MaxTime
MaxSets == 2          \* total number of Set calls in a behaviour

Clients == {"t1", "t2"}            \* caller threads
Collectors == {"g1", "g2"}         \* slots for collect() goroutines
Ids == {"a", "b"}                  \* captcha ids the callers use
Values == {"", "x"}                \* digits the callers store ("" is legal)
CollectNums == {1}                 \* NewMemoryStore's collectNum argument
Expirations == {1}                 \* NewMemoryStore's expiration argument

Zero == ""            \* Go's zero value of string
None == "none"        \* no thread / no goroutine
NoTime == 0 - 1          \* "never" for the history variables

VARIABLES
  digitsById,   \* map id -> digits (a function on the stored ids)
  idByTime,     \* list of idByTimeValue, front = head of the sequence
  numStored,    \* memoryStore.numStored
  collectNum,   \* memoryStore.collectNum
  expiration,   \* memoryStore.expiration
  writer,       \* holder of the RWMutex write lock, or None
  readers,      \* holders of the RWMutex read lock
  readerSem,    \* RWMutex.readerSem: admissions an Unlock has released for
                \*   readers waiting in RLock, not yet taken
  clock,        \* current time
  pc,           \* per caller: where it is in Set / Get
  arg,          \* per caller: arguments of the call in progress
  ret,          \* per caller: value Get is about to return
  seen,         \* per caller in Set: numStored right after its own increment
  gpc,          \* per goroutine slot: where it is in collect()
  now,          \* per goroutine slot: the `now` captured by collect()
  lastSet,      \* history: per id, time of the most recent Set (NoTime: never)
  pending,      \* history: per id, value of the most recent Set, until a
                \*          clearing Get of the id (None: never set or consumed)
  evicted,      \* history: per id, a sweep deleted it since its last Set
  setCount,     \* history: per id, number of Sets of it
  maxSwept,     \* history: greatest `now` of the sweeps that have returned
  nSets         \* history: number of Set calls so far

store == <<digitsById, idByTime, numStored>>
config == <<collectNum, expiration>>
mutex == <<writer, readers, readerSem>>
callers == <<pc, arg, ret, seen>>
goroutines == <<gpc, now>>
history == <<lastSet, pending, evicted, setCount, maxSwept, nSets>>
vars == <<store, config, mutex, clock, callers, goroutines, history>>

NoArg == [id |-> None, value |-> Zero, clear |-> FALSE]

\* ------------------------------------------------------- pure operations

\* mutant of Lookup: a miss answers with the id instead of the zero value
LookupOrId(m, id) == IF id \in DOMAIN m THEN m[id] ELSE id

\* value, ok := m[id]  (value is the zero value when !ok)
Lookup(m, id) == IF id \in DOMAIN m THEN m[id] ELSE Zero

\* mutants of Put: an existing key keeps its first value; the assignment
\* replaces the whole map
PutKeepFirst(m, id, value) ==
  [k \in DOMAIN m \cup {id} |-> IF k \in DOMAIN m THEN m[k] ELSE value]
PutAlone(m, id, value) == [k \in {id} |-> value]

\* m[id] = value
Put(m, id, value) ==
  [k \in DOMAIN m \cup {id} |-> IF k = id THEN value ELSE m[k]]

\* delete(m, id)
Delete(m, id) == [k \in DOMAIN m \ {id} |-> m[k]]

\* mutants of SetStore: PushFront instead of PushBack; the increment of
\* numStored forgotten
SetStoreFront(s, id, value, t) ==
  [digitsById |-> [k \in DOMAIN s.digitsById \cup {id} |->
                     IF k = id THEN value ELSE s.digitsById[k]],
   idByTime   |-> <<[timestamp |-> t, id |-> id]>> \o s.idByTime,
   numStored  |-> s.numStored + 1]
SetStoreNoCount(s, id, value, t) ==
  [digitsById |-> [k \in DOMAIN s.digitsById \cup {id} |->
                     IF k = id THEN value ELSE s.digitsById[k]],
   idByTime   |-> s.idByTime \o <<[timestamp |-> t, id |-> id]>>,
   numStored  |-> s.numStored]

\* Set's critical section on the store s = [digitsById, idByTime, numStored]
SetStore(s, id, value, t) ==
  [digitsById |-> Put(s.digitsById, id, value),
   idByTime   |-> Append(s.idByTime, [timestamp |-> t, id |-> id]),
   numStored  |-> s.numStored + 1]

\* mutants of ShouldCollect: >= for >; one more than the threshold needed
ShouldCollectEq(n, threshold) == n >= threshold
ShouldCollectStrict(n, threshold) == n > threshold + 1

\* the condition of Set's `if` after Unlock
ShouldCollect(n, threshold) == n > threshold

\* mutants of GetStore: the clearing Get forgets the delete; every Get
\* deletes
GetStoreKeep(m, id, clear) == m
GetStoreAlways(m, id, clear) == [k \in DOMAIN m \ {id} |-> m[k]]

\* the map after Get's critical section
GetStore(m, id, clear) ==
  IF id \in DOMAIN m /\ clear THEN Delete(m, id) ELSE m

\* mutants of Expired: one step late, the expiration forgotten, Before
\* taken for "not after"
ExpiredLate(ev, exp, specifyTime) == ev.timestamp + exp + 1 < specifyTime
ExpiredEarly(ev, exp, specifyTime) == ev.timestamp < specifyTime
ExpiredOrEqual(ev, exp, specifyTime) == ev.timestamp + exp <= specifyTime

\* ev.timestamp.Add(s.expiration).Before(specifyTime)
Expired(ev, exp, specifyTime) == ev.timestamp + exp < specifyTime

\* mutant of collectOne: an expired node is removed without the delete of
\* its id in the index
collectOneKeepIndex(s, exp, specifyTime) ==
  IF s.idByTime[1].timestamp + exp < specifyTime
    THEN [s |-> [digitsById |-> s.digitsById,
                 idByTime   |-> SubSeq(s.idByTime, 2, Len(s.idByTime)),
                 numStored  |-> s.numStored - 1],
          next |-> Len(s.idByTime) > 1]
    ELSE [s |-> s, next |-> FALSE]

\* collectOne on the front element: the store afterwards and whether the
\* returned element is non-nil (the loop goes on with the new front)
collectOne(s, exp, specifyTime) ==
  IF Expired(Head(s.idByTime), exp, specifyTime)
    THEN [s |-> [digitsById |-> Delete(s.digitsById, Head(s.idByTime).id),
                 idByTime   |-> Tail(s.idByTime),
                 numStored  |-> s.numStored - 1],
          next |-> Tail(s.idByTime) # <<>>]
    ELSE [s |-> s, next |-> FALSE]

\* the loop of collect(): for e := Front(); e != nil; { e = collectOne(e, now) }
RECURSIVE collectLoop(_, _, _)
collectLoop(s, exp, specifyTime) ==
  IF s.idByTime = <<>> THEN s
  ELSE LET r == collectOne(s, exp, specifyTime)
       IN  IF r.next THEN collectLoop(r.s, exp, specifyTime) ELSE r.s

\* the number of collectOne calls the loop of collect() makes
RECURSIVE collectSteps(_, _, _)
collectSteps(s, exp, specifyTime) ==
  IF s.idByTime = <<>> THEN 0
  ELSE LET r == collectOne(s, exp, specifyTime)
       IN  1 + (IF r.next THEN collectSteps(r.s, exp, specifyTime) ELSE 0)

Store == [digitsById |-> digitsById, idByTime |-> idByTime,
          numStored |-> numStored]

\* --------------------------------------------------------------- initial
Init ==
  /\ digitsById = <<>>
  /\ idByTime = <<>>
  /\ numStored = 0
  /\ collectNum \in CollectNums
  /\ expiration \in Expirations
  /\ writer = None
  /\ readers = {}
  /\ readerSem = 0
  /\ clock = 0
  /\ pc = [p \in Clients |-> "idle"]
  /\ arg = [p \in Clients |-> NoArg]
  /\ ret = [p \in Clients |-> Zero]
  /\ seen = [p \in Clients |-> 0]
  /\ gpc = [g \in Collectors |-> "off"]
  /\ now = [g \in Collectors |-> NoTime]
  /\ lastSet = [i \in Ids |-> NoTime]
  /\ pending = [i \in Ids |-> None]
  /\ evicted = [i \in Ids |-> FALSE]
  /\ setCount = [i \in Ids |-> 0]
  /\ maxSwept = NoTime
  /\ nSets = 0

\* ------------------------------------------------------------------ mutex
\* mutants of the mutex: Lock does not wait for the readers to leave;
\* RLock does not wait for the writer to leave
CanLockShared == writer = None
CanRLockAlways == TRUE

CanLock == writer = None /\ readers = {}
CanRLock == writer = None

\* goroutine slots that are free, and callers that may still need one
FreeSlots == {g \in Collectors : gpc[g] = "off"}
InSet == {p \in Clients : pc[p] \in {"SetUnlock", "SetCheck"}}

\* ------------------------------------------------------------------- Set
\* s.Lock(); s.digitsById[id] = value; s.idByTime.PushBack(...); s.numStored++
\* (nothing another thread does can fall between Lock and the statements
\* it guards, so they are one step; time.Now() is read inside it)
SetLocked(p, id, value) ==
  /\ pc[p] = "idle"
  /\ nSets < MaxSets
  /\ Cardinality(FreeSlots) > Cardinality(InSet)
  /\ CanLock
  /\ writer' = p
  /\ LET s == SetStore(Store, id, value, clock)
     IN  /\ digitsById' = s.digitsById
         /\ idByTime' = s.idByTime
         /\ numStored' = s.numStored
         /\ seen' = [seen EXCEPT ![p] = s.numStored]
  /\ pc' = [pc EXCEPT ![p] = "SetUnlock"]
  /\ arg' = [arg EXCEPT ![p] = [id |-> id, value |-> value, clear |-> FALSE]]
  /\ lastSet' = [lastSet EXCEPT ![id] = clock]
  /\ pending' = [pending EXCEPT ![id] = value]
  /\ evicted' = [evicted EXCEPT ![id] = FALSE]
  /\ setCount' = [setCount EXCEPT ![id] = @ + 1]
  /\ nSets' = nSets + 1
  /\ UNCHANGED <<config, readers, readerSem, clock, ret, goroutines, maxSwept>>

\* s.Unlock()
SetUnlock(p) ==
  /\ pc[p] = "SetUnlock"
  /\ writer = p
  /\ writer' = None
  /\ pc' = [pc EXCEPT ![p] = "SetCheck"]
  /\ arg' = [arg EXCEPT ![p] = NoArg]
  /\ UNCHANGED <<store, config, readers, readerSem, clock, ret, seen,
                 goroutines, history>>

\* if s.numStored > s.collectNum { go s.collect() }; return
\* numStored is read without the lock: the value is the one of this moment
SetCheck(p) ==
  /\ pc[p] = "SetCheck"
  /\ IF ShouldCollect(numStored, collectNum)
       THEN gpc' = [gpc EXCEPT ![CHOOSE g \in FreeSlots : TRUE] = "start"]
       ELSE gpc' = gpc
  /\ pc' = [pc EXCEPT ![p] = "idle"]
  /\ seen' = [seen EXCEPT ![p] = 0]
  /\ UNCHANGED <<store, config, mutex, clock, arg, ret, now, history>>

\* ------------------------------------------------------------------- Get
\* s.RLock() or s.Lock(); value, ok := s.digitsById[id];
\* if ok && clear { delete(s.digitsById, id) }
GetLocked(p, id, clear) ==
  /\ pc[p] = "idle"
  /\ IF clear
       THEN CanLock /\ writer' = p /\ readers' = readers
       ELSE CanRLock /\ readers' = readers \cup {p} /\ writer' = writer
  /\ ret' = [ret EXCEPT ![p] = Lookup(digitsById, id)]
  /\ digitsById' = GetStore(digitsById, id, clear)
  /\ pending' = IF clear THEN [pending EXCEPT ![id] = None] ELSE pending
  /\ pc' = [pc EXCEPT ![p] = "GetUnlock"]
  /\ arg' = [arg EXCEPT ![p] = [id |-> id, value |-> Zero, clear |-> clear]]
  /\ UNCHANGED <<idByTime, numStored, config, readerSem, clock, seen,
                 goroutines, lastSet, evicted, setCount, maxSwept, nSets>>

\* the deferred s.RUnlock() or s.Unlock(); return value
GetUnlock(p) ==
  /\ pc[p] = "GetUnlock"
  /\ IF arg[p].clear
       THEN writer' = None /\ readers' = readers
       ELSE readers' = readers \ {p} /\ writer' = writer
  /\ pc' = [pc EXCEPT ![p] = "idle"]
  /\ arg' = [arg EXCEPT ![p] = NoArg]
  /\ ret' = [ret EXCEPT ![p] = Zero]
  /\ UNCHANGED <<store, config, readerSem, clock, seen, goroutines, history>>

\* --------------------------------------------------------------- collect
\* now := time.Now()
CollectNow(g) ==
  /\ gpc[g] = "start"
  /\ now' = [now EXCEPT ![g] = clock]
  /\ gpc' = [gpc EXCEPT ![g] = "lock"]
  /\ UNCHANGED <<store, config, mutex, clock, callers, history>>

\* s.Lock(); for e := s.idByTime.Front(); e != nil; { e = s.collectOne(e, now) }
CollectLocked(g) ==
  /\ gpc[g] = "lock"
  /\ CanLock
  /\ writer' = g
  /\ LET s == collectLoop(Store, expiration, now[g])
     IN  /\ digitsById' = s.digitsById
         /\ idByTime' = s.idByTime
         /\ numStored' = s.numStored
         /\ evicted' = [i \in Ids |->
                          evicted[i] \/ (i \in DOMAIN digitsById
                                         /\ i \notin DOMAIN s.digitsById)]
  /\ gpc' = [gpc EXCEPT ![g] = "unlock"]
  /\ UNCHANGED <<config, readers, readerSem, clock, callers, now, lastSet, pending,
                 setCount, maxSwept, nSets>>

\* the deferred s.Unlock(); the goroutine ends
CollectUnlock(g) ==
  /\ gpc[g] = "unlock"
  /\ writer = g
  /\ writer' = None
  /\ gpc' = [gpc EXCEPT ![g] = "off"]
  /\ now' = [now EXCEPT ![g] = NoTime]
  /\ maxSwept' = IF now[g] > maxSwept THEN now[g] ELSE maxSwept
  /\ UNCHANGED <<store, config, readers, readerSem, clock, callers, lastSet, pending,
                 evicted, setCount, nSets>>

\* ----------------------------------------------------------------- clock
Tick ==
  /\ clock < MaxTime
  /\ clock' = clock + 1
  /\ UNCHANGED <<store, config, mutex, callers, goroutines, history>>

Next ==
  \/ \E p \in Clients, id \in Ids, value \in Values : SetLocked(p, id, value)
  \/ \E p \in Clients : SetUnlock(p)
  \/ \E p \in Clients : SetCheck(p)
  \/ \E p \in Clients, id \in Ids, clear \in BOOLEAN : GetLocked(p, id, clear)
  \/ \E p \in Clients : GetUnlock(p)
  \/ \E g \in Collectors : CollectNow(g)
  \/ \E g \in Collectors : CollectLocked(g)
  \/ \E g \in Collectors : CollectUnlock(g)
  \/ Tick

Spec == Init /\ [][Next]_vars

\* ------------------------------------------------- blocking on the mutex
\* The same program with the call of an operation and the acquisition of
\* the mutex as separate steps, so that a caller blocked in Lock or RLock is
\* a state.  "SetLock" and "GetLock" are callers whose next statement is,
\* or who are inside, s.Lock()/s.RLock() without having got anything, as
\* "lock" is for a collect() goroutine.  sync.RWMutex.Lock first takes the
\* writers' mutex rw.w and announces the writer (readerCount goes
\* negative); if no reader is inside it returns at once, otherwise the
\* writer waits, announced, for the readers to leave: "SetWait", "GetWait"
\* and "wait" are those states.  RLock registers the reader
\* (readerCount.Add(1)) and returns at once unless a writer is announced or
\* holds the lock; otherwise the reader waits, registered ("GetRWait"), on
\* readerSem.  Unlock releases readerSem once for every registered reader;
\* the releases are not handed to anyone by name: whichever waiting reader
\* runs first takes one and returns from RLock, whatever later writers do.
\* A writer has the lock when no reader is inside and no release is left
\* to be taken.  The history variables serve the claims about values and stay as
\* they are here, except nSets, which bounds the number of Sets.

\* the writer that holds rw.w and has announced itself, waiting for the
\* readers to leave (at most one)
Announced ==
  {p \in Clients : pc[p] \in {"SetWait", "GetWait"}}
    \cup {g \in Collectors : gpc[g] = "wait"}

\* rw.w is free: no writer holds the lock or is announced
CanAnnounce == writer = None /\ Announced = {}

\* mutant of CanRLockPending: RLock ignores an announced writer
CanRLockBarging == writer = None

\* sync.RWMutex.RLock returns at once iff no writer holds the lock or is
\* announced
CanRLockPending == writer = None /\ Announced = {}

\* readers registered in RLock that wait on readerSem
Blocked == {p \in Clients : pc[p] = "GetRWait"}

\* readerCount is 0: no reader is inside and none has been admitted and is
\* still to return from RLock
NoReader == readers = {} /\ readerSem = 0

\* what the callers pass: blocking depends on neither the id nor the digits
LiveIds == {"a"}
LiveValues == {"x"}

InSetCall ==
  {p \in Clients : pc[p] \in {"SetLock", "SetWait", "SetUnlock", "SetCheck"}}

\* Set(id, value) is called and reaches s.Lock()
SetCall(p, id, value) ==
  /\ pc[p] = "idle"
  /\ nSets < MaxSets
  /\ Cardinality(FreeSlots) > Cardinality(InSetCall)
  /\ pc' = [pc EXCEPT ![p] = "SetLock"]
  /\ arg' = [arg EXCEPT ![p] = [id |-> id, value |-> value, clear |-> FALSE]]
  /\ nSets' = nSets + 1
  /\ UNCHANGED <<store, config, mutex, clock, ret, seen, goroutines,
                 lastSet, pending, evicted, setCount, maxSwept>>

\* inside s.Lock(): rw.w taken and the writer announced, readers are counted
SetAnnounce(p) ==
  /\ pc[p] = "SetLock"
  /\ CanAnnounce
  /\ ~NoReader
  /\ pc' = [pc EXCEPT ![p] = "SetWait"]
  /\ UNCHANGED <<store, config, mutex, clock, arg, ret, seen, goroutines,
                 history>>

\* s.Lock() returns (announced with no reader inside, or the last reader
\* has left); s.digitsById[id] = value; PushBack; s.numStored++
SetAcquire(p) ==
  /\ \/ pc[p] = "SetLock" /\ CanAnnounce
     \/ pc[p] = "SetWait"
  /\ CanLock /\ NoReader
  /\ writer' = p
  /\ LET s == SetStore(Store, arg[p].id, arg[p].value, clock)
     IN  /\ digitsById' = s.digitsById
         /\ idByTime' = s.idByTime
         /\ numStored' = s.numStored
  /\ pc' = [pc EXCEPT ![p] = "SetUnlock"]
  /\ UNCHANGED <<config, readers, readerSem, clock, arg, ret, seen,
                 goroutines, history>>

\* s.Unlock(): readerSem is released once for every reader that waits in
\* RLock, rw.w is released
SetRelease(p) ==
  /\ pc[p] = "SetUnlock"
  /\ writer = p
  /\ writer' = None
  /\ readerSem' = readerSem + Cardinality(Blocked)
  /\ pc' = [pc EXCEPT ![p] = "SetCheck"]
  /\ arg' = [arg EXCEPT ![p] = NoArg]
  /\ UNCHANGED <<store, config, readers, clock, ret, seen, goroutines,
                 history>>

\* Get(id, clear) is called and reaches s.RLock() or s.Lock()
GetCall(p, id, clear) ==
  /\ pc[p] = "idle"
  /\ pc' = [pc EXCEPT ![p] = "GetLock"]
  /\ arg' = [arg EXCEPT ![p] = [id |-> id, value |-> Zero, clear |-> clear]]
  /\ UNCHANGED <<store, config, mutex, clock, ret, seen, goroutines,
                 history>>

\* inside s.Lock() of a clearing Get: rw.w taken and the writer announced,
\* readers are counted
GetAnnounce(p) ==
  /\ pc[p] = "GetLock"
  /\ arg[p].clear
  /\ CanAnnounce
  /\ ~NoReader
  /\ pc' = [pc EXCEPT ![p] = "GetWait"]
  /\ UNCHANGED <<store, config, mutex, clock, arg, ret, seen, goroutines,
                 history>>

\* inside s.RLock(): the reader is registered while a writer is announced
\* or holds the lock, and waits
GetRegister(p) ==
  /\ pc[p] = "GetLock"
  /\ ~arg[p].clear
  /\ ~CanRLockPending
  /\ pc' = [pc EXCEPT ![p] = "GetRWait"]
  /\ UNCHANGED <<store, config, mutex, clock, arg, ret, seen, goroutines,
                 history>>

\* s.RLock() or s.Lock() returns; value, ok := s.digitsById[id];
\* if ok && clear { delete(s.digitsById, id) }
GetAcquire(p) ==
  /\ IF arg[p].clear
       THEN /\ \/ pc[p] = "GetLock" /\ CanAnnounce
               \/ pc[p] = "GetWait"
            /\ CanLock /\ NoReader
            /\ writer' = p /\ readers' = readers /\ readerSem' = readerSem
       ELSE /\ \/ pc[p] = "GetLock" /\ CanRLockPending /\ readerSem' = readerSem
               \/ pc[p] = "GetRWait" /\ readerSem > 0 /\ readerSem' = readerSem - 1
            /\ readers' = readers \cup {p} /\ writer' = writer
  /\ ret' = [ret EXCEPT ![p] = Lookup(digitsById, arg[p].id)]
  /\ digitsById' = GetStore(digitsById, arg[p].id, arg[p].clear)
  /\ pc' = [pc EXCEPT ![p] = "GetUnlock"]
  /\ UNCHANGED <<idByTime, numStored, config, clock, arg, seen, goroutines,
                 history>>

\* the deferred s.RUnlock(), or s.Unlock(), which releases readerSem once
\* for every reader that waits in RLock; return value
GetRelease(p) ==
  /\ pc[p] = "GetUnlock"
  /\ IF arg[p].clear
       THEN /\ writer' = None /\ readers' = readers
            /\ readerSem' = readerSem + Cardinality(Blocked)
       ELSE readers' = readers \ {p} /\ writer' = writer /\ readerSem' = readerSem
  /\ pc' = [pc EXCEPT ![p] = "idle"]
  /\ arg' = [arg EXCEPT ![p] = NoArg]
  /\ ret' = [ret EXCEPT ![p] = Zero]
  /\ UNCHANGED <<store, config, clock, seen, goroutines, history>>

\* inside s.Lock() of collect(): rw.w taken and the writer announced,
\* readers are counted
CollectAnnounce(g) ==
  /\ gpc[g] = "lock"
  /\ CanAnnounce
  /\ ~NoReader
  /\ gpc' = [gpc EXCEPT ![g] = "wait"]
  /\ UNCHANGED <<store, config, mutex, clock, callers, now, history>>

\* s.Lock() returns; for e := s.idByTime.Front(); e != nil; { e = s.collectOne(e, now) }
CollectAcquire(g) ==
  /\ \/ gpc[g] = "lock" /\ CanAnnounce
     \/ gpc[g] = "wait"
  /\ CanLock /\ NoReader
  /\ writer' = g
  /\ LET s == collectLoop(Store, expiration, now[g])
     IN  /\ digitsById' = s.digitsById
         /\ idByTime' = s.idByTime
         /\ numStored' = s.numStored
  /\ gpc' = [gpc EXCEPT ![g] = "unlock"]
  /\ UNCHANGED <<config, readers, readerSem, clock, callers, now, history>>

\* the deferred s.Unlock(), which releases readerSem once for every reader
\* that waits in RLock; the goroutine ends
CollectRelease(g) ==
  /\ gpc[g] = "unlock"
  /\ writer = g
  /\ writer' = None
  /\ readerSem' = readerSem + Cardinality(Blocked)
  /\ gpc' = [gpc EXCEPT ![g] = "off"]
  /\ now' = [now EXCEPT ![g] = NoTime]
  /\ UNCHANGED <<store, config, readers, clock, callers, history>>

LiveNext ==
  \/ \E p \in Clients, id \in LiveIds, value \in LiveValues : SetCall(p, id, value)
  \/ \E p \in Clients : SetAnnounce(p)
  \/ \E p \in Clients : SetAcquire(p)
  \/ \E p \in Clients : SetRelease(p)
  \/ \E p \in Clients : SetCheck(p)
  \/ \E p \in Clients, id \in LiveIds, clear \in BOOLEAN : GetCall(p, id, clear)
  \/ \E p \in Clients : GetAnnounce(p)
  \/ \E p \in Clients : GetRegister(p)
  \/ \E p \in Clients : GetAcquire(p)
  \/ \E p \in Clients : GetRelease(p)
  \/ \E g \in Collectors : CollectNow(g)
  \/ \E g \in Collectors : CollectAnnounce(g)
  \/ \E g \in Collectors : CollectAcquire(g)
  \/ \E g \in Collectors : CollectRelease(g)
  \/ Tick

\* Scheduling: a thread or goroutine that is not blocked keeps running (weak
\* fairness of the steps that wait for nothing: releasing, the check after
\* Unlock, time.Now(), registering in RLock), and the mutex is fair: whoever
\* is inside Lock or RLock while what it waits for (rw.w, the readers gone,
\* no writer) is there again and again gets it (strong fairness of the
\* announcements and acquisitions).
Fairness ==
  /\ \A p \in Clients :
       /\ WF_vars(SetRelease(p) \/ SetCheck(p) \/ GetRegister(p) \/ GetRelease(p))
       /\ SF_vars(SetAnnounce(p) \/ SetAcquire(p) \/ GetAnnounce(p) \/ GetAcquire(p))
  /\ \A g \in Collectors :
       /\ WF_vars(CollectNow(g) \/ CollectRelease(g))
       /\ SF_vars(CollectAnnounce(g) \/ CollectAcquire(g))

LiveSpec == Init /\ [][LiveNext]_vars /\ Fairness

\* ------------------------------------------------------------ vocabulary
\* steps of the callers and of the sweep, as seen in a pair of states
SetStep(p) == pc[p] = "idle" /\ pc'[p] = "SetUnlock"
CheckStep(p) == pc[p] = "SetCheck" /\ pc'[p] = "idle"
GetStep(p) == pc[p] = "idle" /\ pc'[p] = "GetUnlock"
SweepStep(g) == gpc[g] = "lock" /\ gpc'[g] = "unlock"

\* greatest reference time of the sweeps whose pass is over (returned, or
\* about to release the lock)
SweptTo ==
  LET done == {maxSwept} \cup {now[g] : g \in {h \in Collectors : gpc[h] = "unlock"}}
  IN  CHOOSE t \in done : \A u \in done : u <= t

\* ---------------------------------------------------------------- claims

\* C1: once a sweep whose reference time is more than the expiration past
\* the (most recent) Set of an id has run its pass, Get(id, false) and
\* Get(id, true) find nothing, i.e. return the zero value; the index never
\* keeps an id older than the expiration that a sweep has scanned past.
C1_ExpiredIsSwept ==
  \A id \in Ids :
    (lastSet[id] # NoTime /\ lastSet[id] + expiration < SweptTo)
      => (id \notin DOMAIN digitsById /\ Lookup(digitsById, id) = Zero)

\* a sweep has just removed an entry that was set, never consumed, and was
\* older than the expiration at the sweep's reference time
C1_Witness ==
  \E g \in Collectors, id \in Ids :
    /\ gpc[g] = "unlock"
    /\ pending[id] # None
    /\ evicted[id]
    /\ lastSet[id] + expiration < now[g]
    /\ id \notin DOMAIN digitsById

\* C2 (as claimed): a sweep never removes an entry younger than the
\* expiration: if the most recent Set(id, v) is less than `expiration` before
\* the sweep's reference time, Get(id, false) still returns v after the sweep.
C2_SweepKeepsYoung ==
  [][\A g \in Collectors : SweepStep(g) =>
       \A id \in DOMAIN digitsById :
         (now[g] - lastSet[id] < expiration)
           => Lookup(digitsById', id) = digitsById[id]]_vars

\* C3 (as claimed): after more Sets than collectNum, with distinct ids, all
\* returned and every sweep they started finished, an entry whose Set is more
\* than the expiration ago is no longer returned by Get(id, false).
C3_ExpiredIsUnreadable ==
  ( /\ \A p \in Clients : pc[p] = "idle"
    /\ \A g \in Collectors : gpc[g] = "off"
    /\ nSets > collectNum
    /\ \A id \in Ids : setCount[id] <= 1 )
  => \A id \in Ids :
       (lastSet[id] # NoTime /\ clock - lastSet[id] > expiration)
         => Lookup(digitsById, id) = Zero

\* C3 (amended): time alone removes nothing.  An entry set once and not
\* consumed is returned by Get(id, false), however old it is, until a sweep
\* whose reference time is more than the expiration past its Set has run;
\* from then on Get returns the zero value.
C3_ReadableUntilSwept ==
  \A id \in Ids :
    (setCount[id] = 1 /\ pending[id] # None)
      => Lookup(digitsById, id) =
           IF lastSet[id] + expiration < SweptTo THEN Zero ELSE pending[id]

\* the example of the claim, scaled: collectNum + 1 Sets with distinct ids,
\* the sweep they started is over, more than the expiration has passed, and
\* Get(id, false) would still return every value
C3_Witness ==
  /\ \A p \in Clients : pc[p] = "idle"
  /\ \A g \in Collectors : gpc[g] = "off"
  /\ nSets > collectNum
  /\ maxSwept # NoTime
  /\ \A id \in Ids :
       /\ setCount[id] = 1
       /\ clock - lastSet[id] > expiration
       /\ Lookup(digitsById, id) = pending[id]
       /\ pending[id] # Zero

\* C4 (as claimed): after Set(id, value) the first clearing Get of id returns
\* value and removes the entry; every Get of an id that was never set, or
\* was consumed by a clearing Get since its last Set, returns the zero value.
C4_FirstClearingGetReturnsValue ==
  [][\A p \in Clients : GetStep(p) =>
       LET id == arg'[p].id IN
         /\ (arg'[p].clear /\ pending[id] # None)
              => (ret'[p] = pending[id] /\ id \notin DOMAIN digitsById')
         /\ (pending[id] = None) => ret'[p] = Zero]_vars

\* C4 (amended): the first clearing Get after Set(id, value) returns value
\* provided no sweep has deleted id from the index since that Set; in every
\* case the clearing Get leaves id out of the index, and every Get of an id
\* never set, or consumed since its last Set, returns the zero value.
C4_ClearingGetOnce ==
  [][\A p \in Clients : GetStep(p) =>
       LET id == arg'[p].id IN
         /\ (arg'[p].clear /\ pending[id] # None /\ ~evicted[id])
              => ret'[p] = pending[id]
         /\ arg'[p].clear => id \notin DOMAIN digitsById'
         /\ (pending[id] = None) => ret'[p] = Zero]_vars

\* a clearing Get is about to return the value that was set
C4_Witness ==
  \E p \in Clients :
    /\ pc[p] = "GetUnlock"
    /\ arg[p].clear
    /\ ret[p] # Zero
    /\ pending[arg[p].id] = None
    /\ arg[p].id \notin DOMAIN digitsById

\* C5: a non-clearing Get of an id returns the value of the most recent
\* Set of it (last write wins) and changes nothing, so that repeating it
\* returns the value again, as long as no clearing Get and no evicting sweep
\* came after that Set.
C5_ReadIsIdempotent ==
  [][\A p \in Clients :
       (GetStep(p) /\ ~arg'[p].clear /\ pending[arg'[p].id] # None
          /\ ~evicted[arg'[p].id])
         => (ret'[p] = pending[arg'[p].id] /\ UNCHANGED store)]_vars

\* two non-clearing Gets of an id that was set twice are about to return
\* the value of the second Set
C5_Witness ==
  \E id \in Ids :
    /\ setCount[id] = 2
    /\ \A p \in Clients :
         /\ pc[p] = "GetUnlock"
         /\ ~arg[p].clear
         /\ arg[p].id = id
         /\ ret[p] = pending[id]
         /\ ret[p] # Zero

\* C6: an id never passed to Set is never in the index, and Get(id, false)
\* and Get(id, true) return the zero value for it, whatever happened to the
\* other ids.
C6_NeverSetIsZero ==
  /\ \A id \in Ids : lastSet[id] = NoTime => id \notin DOMAIN digitsById
  /\ \A p \in Clients :
       (pc[p] = "GetUnlock" /\ lastSet[arg[p].id] = NoTime) => ret[p] = Zero

\* a clearing and a non-clearing Get of a never-set id, while another id is
\* stored, differ only in the lock: here the clearing one is about to return
C6_Witness ==
  \E p \in Clients :
    /\ pc[p] = "GetUnlock"
    /\ arg[p].clear
    /\ lastSet[arg[p].id] = NoTime
    /\ ret[p] = Zero
    /\ digitsById # <<>>

\* C7: Set(id, value) takes the exclusive lock and, in one step, sets
\* digitsById[id] = value leaving every other key as it was, appends exactly
\* one node (now, id) behind the unchanged nodes of idByTime and adds 1 to
\* numStored.
C7_SetEffect ==
  [][\A p \in Clients : SetStep(p) =>
       LET id == arg'[p].id
           n  == Len(idByTime)
       IN  /\ writer = None /\ readers = {} /\ writer' = p
           /\ DOMAIN digitsById' = DOMAIN digitsById \cup {id}
           /\ digitsById'[id] = arg'[p].value
           /\ \A k \in DOMAIN digitsById \ {id} : digitsById'[k] = digitsById[k]
           /\ Len(idByTime') = n + 1
           /\ \A i \in 1..n : idByTime'[i] = idByTime[i]
           /\ idByTime'[n + 1] = [timestamp |-> clock, id |-> id]
           /\ numStored' = numStored + 1]_vars

\* a Set has just run on a store that already held another id and a node
C7_Witness ==
  \E p \in Clients :
    /\ pc[p] = "SetUnlock"
    /\ Len(idByTime) >= 2
    /\ Cardinality(DOMAIN digitsById) >= 2
    /\ idByTime[Len(idByTime)].id = arg[p].id

\* C8 (as claimed): every Set whose own increment brought numStored above
\* collectNum starts a sweep.
C8_OwnIncrementSchedules ==
  [][\A p \in Clients :
       (CheckStep(p) /\ seen[p] > collectNum)
         => \E g \in Collectors : gpc[g] = "off" /\ gpc'[g] = "start"]_vars

\* C8 (amended): a Set starts a sweep exactly when the value of numStored
\* it reads after Unlock exceeds collectNum (a sweep that ran in between may
\* have lowered it below the value of the Set's own increment); the Set
\* returns in that step, with the sweep still to run, and the check itself
\* changes nothing in the store.
C8_ReadValueSchedules ==
  [][\A p \in Clients : CheckStep(p) =>
       /\ (numStored > collectNum)
            <=> (\E g \in Collectors : gpc[g] = "off" /\ gpc'[g] = "start")
       /\ \A g \in Collectors : gpc'[g] # gpc[g] => gpc'[g] = "start"
       /\ UNCHANGED <<store, mutex>>]_vars

\* every Set has returned and a sweep it started has not run yet
C8_Witness ==
  /\ \A p \in Clients : pc[p] = "idle"
  /\ \E g \in Collectors : gpc[g] = "start"
  /\ numStored > collectNum

\* C9 (as claimed): after Sets with distinct ids have all returned, a
\* non-clearing Get of each id returns the value that was set.
C9_NoLostUpdate ==
  [][\A p \in Clients :
       (/\ GetStep(p) /\ ~arg'[p].clear
        /\ InSet = {}
        /\ \A i \in Ids : setCount[i] <= 1
        /\ setCount[arg'[p].id] = 1
        /\ pending[arg'[p].id] # None)
         => ret'[p] = pending[arg'[p].id]]_vars

\* C9 (amended): the same, for every id whose Set is at most the expiration
\* ago when the Get runs (so that no sweep can have found it expired).
C9_NoLostUpdateWithinTtl ==
  [][\A p \in Clients :
       (/\ GetStep(p) /\ ~arg'[p].clear
        /\ InSet = {}
        /\ \A i \in Ids : setCount[i] <= 1
        /\ setCount[arg'[p].id] = 1
        /\ pending[arg'[p].id] # None
        /\ clock - lastSet[arg'[p].id] <= expiration)
         => ret'[p] = pending[arg'[p].id]]_vars

\* one Set per id, all returned, a sweep started by them, and a concurrent
\* non-clearing Get of each id about to return the value set
C9_Witness ==
  /\ \A i \in Ids : setCount[i] = 1
  /\ \E g \in Collectors : gpc[g] # "off"
  /\ \A p \in Clients :
       /\ pc[p] = "GetUnlock"
       /\ ~arg[p].clear
       /\ ret[p] = pending[arg[p].id]
       /\ ret[p] # Zero
  /\ \E p, q \in Clients : arg[p].id # arg[q].id

\* C10: a sweep that finds the queue empty or its front node not expired
\* (timestamp + expiration not before the sweep's now), and in particular a
\* sweep whose now is not after the now of a sweep that has already
\* returned, leaves digitsById, idByTime and numStored unchanged.
C10_SweepIdempotent ==
  [][\A g \in Collectors :
       (/\ SweepStep(g)
        /\ \/ idByTime = <<>>
           \/ ~(Head(idByTime).timestamp + expiration < now[g])
           \/ now[g] <= maxSwept)
         => UNCHANGED store]_vars

\* a first sweep evicted an entry and returned; a second sweep with a
\* reference time not after the first's has run on the nodes that are left
C10_Witness ==
  \E g \in Collectors :
    /\ gpc[g] = "unlock"
    /\ now[g] <= maxSwept
    /\ idByTime # <<>>
    /\ \E id \in Ids : evicted[id]

\* C11 (as claimed): numStored is the number of items stored since the last
\* collection: when a sweep has run its pass no Set has come after it yet,
\* so numStored is 0.
C11_CountsSinceLastSweep ==
  [][\A g \in Collectors : SweepStep(g) => numStored' = 0]_vars

\* number of nodes at the front of q that are expired at time t: the
\* greatest k with q[i].timestamp + exp strictly before t for all i <= k
ExpiredPrefix(q, exp, t) ==
  LET ks == {k \in 0..Len(q) : \A i \in 1..k : q[i].timestamp + exp < t}
  IN  CHOOSE k \in ks : \A j \in ks : j <= k

\* C12 (as claimed): a sweep removes exactly the longest prefix of expired
\* nodes (a node aged exactly the expiration is kept), deletes their ids
\* from the index, subtracts their number from numStored, and touches no
\* node and no index entry behind the node it stops at.
C12_SweepRemovesExpiredPrefix ==
  [][\A g \in Collectors : SweepStep(g) =>
       LET k    == ExpiredPrefix(idByTime, expiration, now[g])
           gone == {idByTime[i].id : i \in 1..k}
           kept == {idByTime[i].id : i \in (k + 1)..Len(idByTime)}
       IN  /\ idByTime' = SubSeq(idByTime, k + 1, Len(idByTime))
           /\ numStored' = numStored - k
           /\ \A id \in gone : id \notin DOMAIN digitsById'
           /\ \A id \in DOMAIN digitsById \ gone :
                id \in DOMAIN digitsById' /\ digitsById'[id] = digitsById[id]
           /\ \A id \in kept \cap DOMAIN digitsById :
                id \in DOMAIN digitsById' /\ digitsById'[id] = digitsById[id]]_vars

\* C13: a clearing Get runs alone (no reader and no other writer is inside)
\* and reads and removes in one step: it returns the stored value only if
\* no clearing Get has run since the most recent Set of the id, and leaves
\* the id out of the index, so every clearing Get serialized after it finds
\* nothing and returns the zero value.
C13_ClearingGetAtomic ==
  [][\A p \in Clients : (GetStep(p) /\ arg'[p].clear) =>
       LET id == arg'[p].id IN
         /\ writer = None /\ readers = {} /\ writer' = p
         /\ id \notin DOMAIN digitsById'
         /\ id \in DOMAIN digitsById
              => (ret'[p] = digitsById[id] /\ pending[id] = digitsById[id])
         /\ id \notin DOMAIN digitsById => ret'[p] = Zero]_vars

\* the id was set once and no sweep evicted it, so an earlier clearing Get
\* took its value; this clearing Get came second and is about to return the
\* zero value
C13_Witness ==
  \E p \in Clients :
    /\ pc[p] = "GetUnlock"
    /\ arg[p].clear
    /\ ret[p] = Zero
    /\ setCount[arg[p].id] = 1
    /\ ~evicted[arg[p].id]
    /\ Len(idByTime) = 1
    /\ idByTime[1].id = arg[p].id

\* who is inside an exclusive critical section (Set's mutation, a clearing
\* Get, a sweep pass) and who is inside a shared one (a non-clearing Get)
InsideExclusive ==
  {p \in Clients : pc[p] = "SetUnlock" \/ (pc[p] = "GetUnlock" /\ arg[p].clear)}
    \cup {g \in Collectors : gpc[g] = "unlock"}
InsideShared == {p \in Clients : pc[p] = "GetUnlock" /\ ~arg[p].clear}

LockDiscipline ==
  /\ Cardinality(InsideExclusive) <= 1
  /\ InsideExclusive # {} => InsideShared = {}
  /\ InsideExclusive = (IF writer = None THEN {} ELSE {writer})
  /\ InsideShared = readers

\* C14: at most one of Set's mutation, clearing Get and sweep pass is inside
\* its critical section, and none while a non-clearing Get holds the read
\* lock; the one inside is the holder of the write lock and the non-clearing
\* Gets inside are the holders of the read lock; every step that changes
\* digitsById, idByTime or numStored is made by the holder of the write lock.
C14_LockDiscipline ==
  [][/\ LockDiscipline'
     /\ store' # store => (writer' # None /\ readers' = {} /\ readers = {})]_vars

\* two non-clearing Gets are inside together while a sweep waits for the lock
C14_Witness ==
  /\ readers = Clients
  /\ \A p \in Clients : pc[p] = "GetUnlock" /\ ~arg[p].clear
  /\ \E g \in Collectors : gpc[g] = "lock"

\* timestamps do not decrease from the front to the back of q
Sorted(q) == \A i \in 1..(Len(q) - 1) : q[i].timestamp <= q[i + 1].timestamp

\* C15: idByTime changes only by a Set appending one node (now, id) at the
\* back or by a sweep removing nodes from the front, the nodes that stay keep
\* their order, and the timestamps never decrease from front to back.
C15_QueueIsFifo ==
  [][/\ Sorted(idByTime')
     /\ idByTime' # idByTime =>
          \/ \E p \in Clients :
               /\ SetStep(p)
               /\ idByTime' = idByTime \o <<[timestamp |-> clock, id |-> arg'[p].id]>>
          \/ \E g \in Collectors :
               /\ SweepStep(g)
               /\ \E k \in 1..Len(idByTime) :
                    idByTime' = SubSeq(idByTime, k + 1, Len(idByTime))]_vars

\* a sweep has removed the front node and left a younger node in the queue
C15_Witness ==
  /\ \E g \in Collectors : gpc[g] = "unlock" /\ numStored < nSets
  /\ idByTime # <<>>
  /\ \A i \in 1..Len(idByTime) : idByTime[i].timestamp > 0

\* C16: a Get never changes idByTime or numStored; a non-clearing Get leaves
\* digitsById unchanged as well and a clearing Get removes at most the key
\* id, whose queue node stays; numStored goes down only in a sweep that
\* removes queue nodes.
C16_GetFrame ==
  [][/\ \A p \in Clients : GetStep(p) =>
          /\ idByTime' = idByTime
          /\ numStored' = numStored
          /\ digitsById' =
               IF arg'[p].clear
                 THEN [k \in DOMAIN digitsById \ {arg'[p].id} |-> digitsById[k]]
                 ELSE digitsById
     /\ \A p \in Clients :
          (pc[p] = "GetUnlock" /\ pc'[p] = "idle") => UNCHANGED store
     /\ numStored' < numStored =>
          \E g \in Collectors :
            SweepStep(g) /\ numStored - numStored' = Len(idByTime) - Len(idByTime')]_vars

\* a clearing Get has taken the value of an id; the id's node is still in
\* the queue, as an orphan, and numStored still counts it
C16_Witness ==
  \E p \in Clients :
    /\ pc[p] = "GetUnlock"
    /\ arg[p].clear
    /\ ret[p] # Zero
    /\ digitsById = <<>>
    /\ Len(idByTime) = 1
    /\ idByTime[1].id = arg[p].id
    /\ numStored = 1

\* C17: Set's check has no single-flight guard: when the value of numStored
\* it reads after Unlock exceeds collectNum it starts one more sweep, also
\* when a sweep is already scheduled or in flight and also when the Set's
\* own increment did not exceed collectNum (the value read is another
\* caller's).
C17_NoSingleFlight ==
  [][\A p \in Clients :
       (/\ CheckStep(p)
        /\ numStored > collectNum
        /\ \/ seen[p] <= collectNum
           \/ \E h \in Collectors : gpc[h] # "off")
         => /\ \E g \in Collectors : gpc[g] = "off" /\ gpc'[g] = "start"
            /\ Cardinality(Collectors \ FreeSlots') = Cardinality(Collectors \ FreeSlots) + 1]_vars

\* numStored has exceeded collectNum with one increment only, no sweep has
\* removed anything yet, and two sweeps are scheduled or in flight: one of
\* them was started by the Set whose own increment stayed at collectNum
C17_Witness ==
  /\ \A p \in Clients : pc[p] = "idle"
  /\ nSets = collectNum + 1
  /\ numStored = nSets
  /\ \A g \in Collectors : gpc[g] # "off"
  /\ \E g \in Collectors : gpc[g] = "start"

\* operations in flight, and the steps that let one of them go on
InFlight ==
  {p \in Clients : pc[p] # "idle"} \cup {g \in Collectors : gpc[g] # "off"}
Progress ==
  \/ \E p \in Clients :
       \/ SetAnnounce(p) \/ SetAcquire(p) \/ SetRelease(p) \/ SetCheck(p)
       \/ GetAnnounce(p) \/ GetRegister(p) \/ GetAcquire(p) \/ GetRelease(p)
  \/ \E g \in Collectors :
       CollectNow(g) \/ CollectAnnounce(g) \/ CollectAcquire(g) \/ CollectRelease(g)

\* C18: with a fair mutex, every Set and Get that was called returns, every
\* scheduled sweep ends, and whoever holds the lock releases it; the loop of
\* a sweep makes at most Len(idByTime) calls of collectOne; and as long as
\* an operation is in flight one of them can take a step (no deadlock).
C18_NoBlocking ==
  /\ \A p \in Clients :
       (pc[p] # "idle") ~> (pc[p] = "idle" /\ writer # p /\ p \notin readers)
  /\ \A g \in Collectors : (gpc[g] # "off") ~> (gpc[g] = "off" /\ writer # g)
  /\ [][\A g \in Collectors : (gpc[g] # "unlock" /\ gpc'[g] = "unlock") =>
          collectSteps(Store, expiration, now[g]) <= Len(idByTime)]_vars
  /\ [](InFlight # {} => ENABLED Progress)

\* four operations in flight at once: a reader holds the lock, a sweep is
\* announced and waits for it to leave, the other sweep and a clearing Get
\* are blocked in Lock behind that sweep
C18_Witness ==
  \E p, q \in Clients :
    /\ readers = {p}
    /\ pc[q] = "GetLock" /\ arg[q].clear
    /\ \E g, h \in Collectors : gpc[g] = "wait" /\ gpc[h] = "lock"
    /\ Len(idByTime) = MaxSets

\* C19: whenever the write lock is free, numStored is the number of nodes
\* of idByTime (one increment per PushBack, one decrement per Remove), so
\* it is never negative and never below the number of ids in digitsById.
C19_CountIsQueueLength ==
  writer = None =>
    /\ numStored = Len(idByTime)
    /\ numStored >= 0
    /\ numStored >= Cardinality(DOMAIN digitsById)

\* Sets and a sweep have interleaved: the sweep has removed a node, a Set
\* is between its Unlock and its check, and numStored counts a node whose
\* id is no longer in the index
C19_Witness ==
  /\ writer = None
  /\ \E p \in Clients : pc[p] = "SetCheck"
  /\ numStored < nSets
  /\ numStored > Cardinality(DOMAIN digitsById)

\* C20: every id in digitsById has a node in idByTime, the one its most
\* recent Set appended; hence a sweep whose reference time is more than the
\* expiration past that Set finds the node in the expired prefix and leaves
\* the id out of digitsById.
C20_IndexedIdHasNode ==
  /\ \A id \in DOMAIN digitsById :
       \E i \in 1..Len(idByTime) :
         idByTime[i].id = id /\ idByTime[i].timestamp = lastSet[id]
  /\ \A g \in Collectors, id \in Ids :
       (gpc[g] = "unlock" /\ lastSet[id] # NoTime /\ lastSet[id] + expiration < now[g])
         => id \notin DOMAIN digitsById

\* an id was set twice: it is in the index and the queue holds its stale
\* node in front of the node of its most recent Set
C20_Witness ==
  \E id \in DOMAIN digitsById :
    /\ Len(idByTime) = 2
    /\ idByTime[1].id = id /\ idByTime[2].id = id
    /\ idByTime[1].timestamp < idByTime[2].timestamp
    /\ idByTime[2].timestamp = lastSet[id]
    /\ writer = None

====
